---- MODULE Spec2Model ----
(***************************************************************************)
(* Model of the LDC1101 data-acquisition utility (src/main.c, ldc1101.h). *)
(* The program is a single thread: argument parsing, UDP bootstrap, SPI   *)
(* setup, ldc1101_init, then the step / sample loops of main.             *)
(* The SPI transport (wiringPiSPIxDataRW), the UDP client and the file    *)
(* system are the environment: their results are chosen with \E.          *)
(***************************************************************************)
EXTENDS Integers, Sequences, FiniteSets, TLC

(***************************************************************************)
(* Bounds of the model.                                                    *)
(***************************************************************************)
MaxSamples == 2
MaxSteps == 2
MaxTrace == 8

\* bytes the device may put on the bus (0x01, 0xD4)
Bytes == {1, 212}
\* values of -v tried (int16_t cmd_inc)
CmdIncs == {1000, 20000, 24000, -30000}

(***************************************************************************)
(* Register map and masks, ldc1101.h and the #defines of main.c.           *)
(***************************************************************************)
LDC1101_RP_SET == 1
LDC1101_ALT_CONFIG == 5
LDC1101_START_CONFIG == 11
LDC1101_D_CONF == 12
LDC1101_LHR_RCOUNT_LSB == 48
LDC1101_LHR_RCOUNT_MSB == 49
LDC1101_LHR_DATA_LSB == 56
LDC1101_LHR_STATUS == 59
LDC1101_CHIP_ID == 63
LOPTIMAL == 1
DOK_REPORT == 1
SPI_DEV_ID == 212
max_cmd == 24000
start_value == 100

(***************************************************************************)
(* C integer arithmetic.                                                   *)
(***************************************************************************)
RECURSIVE BitAnd(_, _)
BitAnd(a, b) ==
    IF a = 0 \/ b = 0 THEN 0
    ELSE (a % 2) * (b % 2) + 2 * BitAnd(a \div 2, b \div 2)

RECURSIVE BitOr(_, _)
BitOr(a, b) ==
    IF a = 0 THEN b
    ELSE IF b = 0 THEN a
    ELSE (IF (a % 2) + (b % 2) > 0 THEN 1 ELSE 0) + 2 * BitOr(a \div 2, b \div 2)

RECURSIVE Pow2(_)
Pow2(n) == IF n = 0 THEN 1 ELSE 2 * Pow2(n - 1)

Shl(x, n) == x * Pow2(n)
Shr(x, n) == x \div Pow2(n)

\* conversion to uint8_t / uint16_t / int16_t
U8(x) == x % 256
U16(x) == x % 65536
S16(x) == IF U16(x) >= 32768 THEN U16(x) - 65536 ELSE U16(x)
Abs(x) == IF x < 0 THEN -x ELSE x

\* the masks written as shifts in the headers
LDC1101_LHR_DRDY == Shl(1, 0)
HIGH_Q_SENSOR == Shl(0, 7)

\* htons(cmd_val): the two bytes of the datagram entry, most significant first
Htons(v) == <<Shr(U16(v), 8), U16(v) % 256>>

(***************************************************************************)
(* Program state.                                                          *)
(*   pc            position of the single thread                           *)
(*   num_samples, num_steps, cmd_inc   the parsed options (main)           *)
(*   cmd_val, step, i, status, reg, ret, value   locals of main            *)
(*   ireg, ivalue  locals reg and value of ldc1101_init                    *)
(*   spi_fd        the global descriptor; opens counts successful          *)
(*                 wiringPiSPIxSetupMode calls                             *)
(*   trace         the first MaxTrace transactions handed to the SPI       *)
(*                 transport, in order                                     *)
(*   lastTx        the latest transaction with the transport's answer      *)
(*   rows, lastRow the data rows written to the CSV file                   *)
(*   dataReads     LHR data reads issued                                   *)
(*   sent          values passed to UDP_send by send_command (wire bytes)  *)
(*   syslog_last   the latest LOG_ERR message                              *)
(***************************************************************************)
VARIABLES pc, num_samples, num_steps, cmd_inc, cmd_val, step, i, status, reg,
          ret, value, ireg, ivalue, spi_fd, opens, trace, lastTx, rows,
          lastRow, dataReads, sent, syslog_last

vars == <<pc, num_samples, num_steps, cmd_inc, cmd_val, step, i, status, reg,
          ret, value, ireg, ivalue, spi_fd, opens, trace, lastTx, rows,
          lastRow, dataReads, sent, syslog_last>>

mainLocals == <<num_samples, num_steps, cmd_inc, cmd_val, step, i, status, reg,
                ret, value>>
initLocals == <<ireg, ivalue>>
spiState == <<spi_fd, opens>>
busState == <<trace, lastTx, dataReads>>
logState == <<rows, lastRow>>

NoTx == [op |-> "none", frame |-> <<>>, bufsize |-> 0, count |-> 0,
         ok |-> FALSE, resp |-> <<>>]

(***************************************************************************)
(* The SPI transport, wiringPiSPIxDataRW(spi_num, spi_chan, data, len):    *)
(* it clocks len bytes out of data and stores the len bytes clocked in     *)
(* back at the same addresses, or fails with -1 and leaves data alone.     *)
(***************************************************************************)
\* the bytes clocked in by a successful transfer of count bytes: the idle
\* line (0) while the address byte goes out, then count - 1 bytes of the device
Responses(count) ==
    {<<0>> \o r : r \in [1..(count - 1) -> Bytes]}

\* the answers the transport can give to a transfer of count bytes
Answers(count) ==
    {[ok |-> FALSE, resp |-> <<>>]}
      \cup {[ok |-> TRUE, resp |-> r] : r \in Responses(count)}

\* the caller's buffer after the transfer
BufferAfter(buf, ans) ==
    IF ans.ok THEN [k \in 1..Len(buf) |-> ans.resp[k]] ELSE buf

\* the return value of the transfer
RetOf(ans) == IF ans.ok THEN 0 ELSE -1

\* does the transfer store a byte behind the caller's buffer ?
Overruns(tx) == tx.ok /\ tx.count > tx.bufsize
\* the byte it stores there
OverrunByte(tx) == tx.resp[tx.count]

\* which object follows the buffer in the stack frame is the build's choice:
\* padding or an object no longer read ("pad"), or a scalar local of the
\* function
InitVictims == {"pad", "reg", "value"}
MainVictims == {"pad", "status"}

\* one entry of the trace: the direction, the address byte, the second byte
\* of the frame as handed over, and the byte count
Issued(tx) == [op |-> tx.op, addr |-> tx.frame[1], val |-> tx.frame[2],
               count |-> tx.count]

Record(tr, tx) == IF Len(tr) < MaxTrace THEN Append(tr, Issued(tx)) ELSE tr

(***************************************************************************)
(* ldc1101_set_reg and ldc1101_read_reg.                                   *)
(***************************************************************************)
\* the frame ldc1101_set_reg hands to the transport
SetRegFrame(r, v) == <<r, v>>

\* ldc1101_read_reg without the direction bit
ReadRegFrame_nodir(r, data) == [data EXCEPT ![1] = U8(r)]

\* the frame ldc1101_read_reg hands to the transport: data[0] = 1<<7|reg
ReadRegFrame(r, data) == [data EXCEPT ![1] = U8(BitOr(Shl(1, 7), r))]

\* the byte count ldc1101_read_reg passes on
ReadRegCount(length) == length + 1

\* the transfer ldc1101_set_reg asks for: data[2], sizeof(data)
SetRegTx(r, v) ==
    [op |-> "w", frame |-> SetRegFrame(r, v), bufsize |-> 2, count |-> 2,
     ok |-> FALSE, resp |-> <<>>]

\* the transfer ldc1101_read_reg asks for: the caller's buffer, length + 1
ReadRegTx(r, data, length) ==
    [op |-> "r", frame |-> ReadRegFrame(r, data), bufsize |-> Len(data),
     count |-> ReadRegCount(length), ok |-> FALSE, resp |-> <<>>]

\* the transfer with the transport's answer
Answered(tx, ans) == [tx EXCEPT !.ok = ans.ok, !.resp = ans.resp]

\* ldc1101_set_reg returning to its caller after a failed transfer
SetRegNext_returns(ret_val, next) == next

\* where ldc1101_set_reg leaves the thread: exit(EXIT_FAILURE) on -1
SetRegNext(ret_val, next) == IF ret_val = -1 THEN "exit_fail" ELSE next

(***************************************************************************)
(* send_command: the datagram carries htons(cmd_val); UDP_send's result is *)
(* stored in a size_t, so only 0 satisfies bytes_sent <= 0.                *)
(***************************************************************************)
SendResults == {-1, 0, 1}
SendFails(r) == r = 0

(***************************************************************************)
(* Initial state: main after getopt accepted the options.                  *)
(***************************************************************************)
Init ==
    /\ pc = "udp_init"
    /\ num_samples \in 1..MaxSamples
    /\ num_steps \in 1..MaxSteps
    /\ cmd_inc \in CmdIncs
    /\ cmd_val = 0
    /\ step = 0
    /\ i = 0
    /\ status = 0
    /\ reg = 0
    /\ ret = 0
    /\ value = 0
    /\ ireg = 0
    /\ ivalue = 0
    /\ spi_fd = 0
    /\ opens = 0
    /\ trace = <<>>
    /\ lastTx = NoTx
    /\ rows = 0
    /\ lastRow = 0
    /\ dataReads = 0
    /\ sent = <<>>
    /\ syslog_last = "none"

(***************************************************************************)
(* main, up to the call of ldc1101_init.                                   *)
(***************************************************************************)
\* fd = UDP_init(ip, port); a negative descriptor is fatal
UdpInit ==
    /\ pc = "udp_init"
    /\ \E okk \in BOOLEAN :
         /\ pc' = IF okk THEN "baseline" ELSE "exit_fail"
         /\ syslog_last' = IF okk THEN syslog_last ELSE "no_socket"
    /\ UNCHANGED <<mainLocals, initLocals, spiState, busState, logState, sent>>

\* send_command(start_value); usleep: the result is not looked at
Baseline ==
    /\ pc = "baseline"
    /\ sent' = Append(sent, Htons(start_value))
    /\ pc' = "main_spi_setup"
    /\ UNCHANGED <<mainLocals, initLocals, spiState, busState, logState,
                   syslog_last>>

\* the descriptor a successful open returns: the lowest one free, after
\* stdin, stdout, stderr, the UDP socket and the descriptors opened before
NewFd(n) == 4 + n

\* spi_fd = wiringPiSPIxSetupMode(...), in main (at = "main_spi_setup") and
\* again at the head of ldc1101_init (at = "init_spi_setup")
SpiSetup(at, next) ==
    /\ pc = at
    /\ \E okk \in BOOLEAN :
         /\ spi_fd' = IF okk THEN NewFd(opens) ELSE -1
         /\ opens' = IF okk THEN opens + 1 ELSE opens
         /\ pc' = IF okk THEN next ELSE "exit_fail"
         /\ syslog_last' = IF okk THEN syslog_last ELSE "spi_setup_failed"
    /\ UNCHANGED <<mainLocals, initLocals, busState, logState, sent>>

MainSpiSetup == SpiSetup("main_spi_setup", "init_spi_setup")
InitSpiSetup == SpiSetup("init_spi_setup", "w_alt_config")

(***************************************************************************)
(* ldc1101_init: the configuration writes, the identity check, the start.  *)
(***************************************************************************)
rcount == 65535
rpmin == 7
rpmin_mask == 7
rpmax == 0
rpmax_mask == 112
\* uint8_t reserved = ~(0x08)
reserved == U8(-8 - 1)
rp_value ==
    BitAnd(BitOr(BitOr(HIGH_Q_SENSOR, BitAnd(Shl(rpmax, 4), rpmax_mask)),
                 BitAnd(rpmin, rpmin_mask)),
           reserved)

\* ldc1101_init writing the reference count LSB first and starting the
\* conversion before RP_SET
InitSequence_reordered ==
    << [at |-> "w_alt_config", reg |-> LDC1101_ALT_CONFIG, value |-> LOPTIMAL,
        next |-> "w_d_conf"],
       [at |-> "w_d_conf", reg |-> LDC1101_D_CONF, value |-> DOK_REPORT,
        next |-> "w_rcount_msb"],
       [at |-> "w_rcount_msb", reg |-> LDC1101_LHR_RCOUNT_LSB,
        value |-> BitAnd(rcount, 255), next |-> "w_rcount_lsb"],
       [at |-> "w_rcount_lsb", reg |-> LDC1101_LHR_RCOUNT_MSB,
        value |-> BitAnd(Shr(rcount, 8), 255), next |-> "w_rp_set"],
       [at |-> "w_rp_set", reg |-> LDC1101_START_CONFIG, value |-> 0,
        next |-> "r_chip_id"],
       [at |-> "w_start_config", reg |-> LDC1101_RP_SET, value |-> rp_value,
        next |-> "open_log"] >>

\* the ldc1101_set_reg calls of ldc1101_init, in program order
InitSequence ==
    << [at |-> "w_alt_config", reg |-> LDC1101_ALT_CONFIG, value |-> LOPTIMAL,
        next |-> "w_d_conf"],
       [at |-> "w_d_conf", reg |-> LDC1101_D_CONF, value |-> DOK_REPORT,
        next |-> "w_rcount_msb"],
       [at |-> "w_rcount_msb", reg |-> LDC1101_LHR_RCOUNT_MSB,
        value |-> BitAnd(Shr(rcount, 8), 255), next |-> "w_rcount_lsb"],
       [at |-> "w_rcount_lsb", reg |-> LDC1101_LHR_RCOUNT_LSB,
        value |-> BitAnd(rcount, 255), next |-> "w_rp_set"],
       [at |-> "w_rp_set", reg |-> LDC1101_RP_SET, value |-> rp_value,
        next |-> "r_chip_id"],
       [at |-> "w_start_config", reg |-> LDC1101_START_CONFIG, value |-> 0,
        next |-> "open_log"] >>

\* reg = ...; value = ...; ldc1101_set_reg(reg, value);
InitSetReg ==
    \E k \in 1..Len(InitSequence) :
      LET e == InitSequence[k]
          tx == SetRegTx(e.reg, e.value)
      IN /\ pc = e.at
         /\ ireg' = e.reg
         /\ ivalue' = e.value
         /\ trace' = Record(trace, tx)
         /\ \E ans \in Answers(tx.count) :
              /\ lastTx' = Answered(tx, ans)
              /\ pc' = SetRegNext(RetOf(ans), e.next)
              /\ syslog_last' = IF ans.ok THEN syslog_last
                                ELSE "set_reg_failed"
         /\ UNCHANGED <<mainLocals, spiState, dataReads, logState, sent>>

\* the identity check accepting any non-zero identity byte
ChipIdMatches_nonzero(data) == data[2] # 0

\* data[1] != SPI_DEV_ID, negated
ChipIdMatches(data) == data[2] = SPI_DEV_ID

\* the read of CHIP_ID with its two checks
ReadChipId ==
    LET tx == ReadRegTx(LDC1101_CHIP_ID, <<LDC1101_CHIP_ID, 0>>, 2)
    IN /\ pc = "r_chip_id"
       /\ trace' = Record(trace, tx)
       /\ \E ans \in Answers(tx.count) :
            LET data == BufferAfter(tx.frame, ans)
                got == Answered(tx, ans)
            IN /\ lastTx' = got
               /\ \E victim \in InitVictims :
                    LET hit == IF Overruns(got) THEN victim ELSE "pad"
                    IN /\ ireg' = IF hit = "reg" THEN OverrunByte(got)
                                  ELSE LDC1101_CHIP_ID
                       /\ ivalue' = IF hit = "value" THEN OverrunByte(got)
                                    ELSE ivalue
               /\ pc' = IF RetOf(ans) = -1 THEN "exit_fail"
                        ELSE IF ChipIdMatches(data) THEN "w_start_config"
                        ELSE "exit_fail"
               /\ syslog_last' = IF RetOf(ans) = -1 THEN "read_id_failed"
                                 ELSE IF ChipIdMatches(data) THEN syslog_last
                                 ELSE "unexpected_device_id"
       /\ UNCHANGED <<mainLocals, spiState, dataReads, logState, sent>>

(***************************************************************************)
(* main: the log file and the step / sample loops.                         *)
(***************************************************************************)
\* open(logfile), write(header): either failing makes main return -1
OpenLog ==
    /\ pc = "open_log"
    /\ \E okk \in BOOLEAN :
         pc' = IF okk THEN "for_step" ELSE "ret_err"
    /\ step' = 0
    /\ UNCHANGED <<num_samples, num_steps, cmd_inc, cmd_val, i, status, reg,
                   ret, value, initLocals, spiState, busState, logState, sent,
                   syslog_last>>

\* the sample loop running once too often
ForICond_inclusive(k, n) == k <= n

\* the loop conditions step < num_steps and i < num_samples
ForStepCond(s, n) == s < n
ForICond(k, n) == k < n

ForStep ==
    /\ pc = "for_step"
    /\ pc' = IF ForStepCond(step, num_steps) THEN "for_i" ELSE "close"
    /\ i' = IF ForStepCond(step, num_steps) THEN 0 ELSE i
    /\ UNCHANGED <<num_samples, num_steps, cmd_inc, cmd_val, step, status, reg,
                   ret, value, initLocals, spiState, busState, logState, sent,
                   syslog_last>>

ForI ==
    /\ pc = "for_i"
    /\ pc' = IF ForICond(i, num_samples) THEN "poll" ELSE "batch_end"
    /\ status' = IF ForICond(i, num_samples) THEN 1 ELSE status
    /\ UNCHANGED <<num_samples, num_steps, cmd_inc, cmd_val, step, i, reg,
                   ret, value, initLocals, spiState, busState, logState, sent,
                   syslog_last>>

\* status = data[1] & LDC1101_LHR_DRDY
StatusOf(data) == BitAnd(data[2], LDC1101_LHR_DRDY)

\* one pass of while(status != 0): the LHR_STATUS read; the byte stored
\* behind data[2] lands on padding or on status, which line 299 assigns anew
\* the transfer of one poll
PollTx == ReadRegTx(LDC1101_LHR_STATUS, <<LDC1101_LHR_STATUS, 0>>, 2)

PollStep(ans) ==
    LET data == BufferAfter(PollTx.frame, ans)
        got == Answered(PollTx, ans)
    IN /\ pc = "poll"
       /\ lastTx' = got
       /\ trace' = Record(trace, PollTx)
       /\ ret' = RetOf(ans)
       /\ reg' = LDC1101_LHR_STATUS
       /\ status' = StatusOf(data)
       /\ pc' = IF StatusOf(data) # 0 THEN "poll" ELSE "read_data"
       /\ syslog_last' = IF ans.ok THEN syslog_last ELSE "read_reg_failed"
       /\ UNCHANGED <<num_samples, num_steps, cmd_inc, cmd_val, step, i, value,
                      initLocals, spiState, dataReads, logState, sent>>

Poll == pc = "poll" /\ \E ans \in Answers(PollTx.count) : PollStep(ans)

\* the sample assembled most significant byte first
DecodeValue_bigendian(data) ==
    BitOr(BitOr(Shl(data[2], 16), Shl(data[3], 8)), data[4])

\* value = (data[3] << 16) | (data[2] << 8) | data[1]
DecodeValue(data) == BitOr(BitOr(Shl(data[4], 16), Shl(data[3], 8)), data[2])

\* sprintf "%d" of the uint32_t value: read as an int
FormatD(v) == IF v <= 2147483647 THEN v ELSE (v - 2147483647) - 2147483647 - 2

\* the LHR data read, the decoding and the CSV row
\* the transfer of one sample read
DataTx == ReadRegTx(LDC1101_LHR_DATA_LSB, <<0, 0, 0, 0>>, 4)

ReadData ==
    /\ pc = "read_data"
    /\ trace' = Record(trace, DataTx)
    /\ dataReads' = dataReads + 1
    /\ \E ans \in Answers(DataTx.count) :
         LET data == BufferAfter(DataTx.frame, ans)
             got == Answered(DataTx, ans)
         IN /\ lastTx' = got
            /\ ret' = RetOf(ans)
            /\ \E victim \in MainVictims :
                 LET hit == IF Overruns(got) THEN victim ELSE "pad"
                 IN status' = IF hit = "status" THEN OverrunByte(got)
                               ELSE status
            /\ IF RetOf(ans) = -1
               THEN /\ syslog_last' = "read_value_failed"
                    /\ UNCHANGED <<value, rows, lastRow>>
                    /\ i' = i + 1
                    /\ pc' = "for_i"
               ELSE /\ value' = DecodeValue(data)
                    /\ \E wrote \in BOOLEAN :
                         IF wrote
                         THEN /\ rows' = rows + 1
                              /\ lastRow' = FormatD(DecodeValue(data))
                              /\ i' = i + 1
                              /\ pc' = "for_i"
                              /\ UNCHANGED syslog_last
                         ELSE /\ syslog_last' = "write_failed"
                              /\ pc' = "ret_err"
                              /\ UNCHANGED <<rows, lastRow, i>>
    /\ UNCHANGED <<num_samples, num_steps, cmd_inc, cmd_val, step, reg,
                   initLocals, spiState, sent>>

\* cmd_val += cmd_inc in int16_t
NextCmd(v, inc) == S16(v + inc)

\* abs(cmd_val) > max_cmd
ExceedsMax(v) == Abs(v) > max_cmd

\* the end of one step: the new command value, the limit check, the send
BatchEnd ==
    /\ pc = "batch_end"
    /\ cmd_val' = NextCmd(cmd_val, cmd_inc)
    /\ IF ExceedsMax(NextCmd(cmd_val, cmd_inc))
       THEN /\ syslog_last' = "max_cmd_exceeded"
            /\ pc' = "close"
            /\ UNCHANGED <<sent, step>>
       ELSE \E r \in SendResults :
              /\ sent' = Append(sent, Htons(NextCmd(cmd_val, cmd_inc)))
              /\ IF SendFails(r)
                 THEN /\ syslog_last' = "send_failed"
                      /\ pc' = "close"
                      /\ UNCHANGED step
                 ELSE /\ step' = step + 1
                      /\ pc' = "for_step"
                      /\ UNCHANGED syslog_last
    /\ UNCHANGED <<num_samples, num_steps, cmd_inc, i, status, reg, ret, value,
                   initLocals, spiState, busState, logState>>

\* close(log_fd); return 0
Close ==
    /\ pc = "close"
    /\ pc' = "done"
    /\ UNCHANGED <<mainLocals, initLocals, spiState, busState, logState, sent,
                   syslog_last>>

Next ==
    \/ UdpInit
    \/ Baseline
    \/ MainSpiSetup
    \/ InitSpiSetup
    \/ InitSetReg
    \/ ReadChipId
    \/ OpenLog
    \/ ForStep
    \/ ForI
    \/ Poll
    \/ ReadData
    \/ BatchEnd
    \/ Close

Spec == Init /\ [][Next]_vars

\* a poll the device answers with the ready flag asserted (bit 0 clear)
PollReady ==
    /\ pc = "poll"
    /\ \E ans \in Answers(PollTx.count) :
         ans.ok /\ ans.resp[2] % 2 = 0 /\ PollStep(ans)

\* the program keeps running, and the device eventually answers a poll ready
LiveSpec == Init /\ [][Next]_vars /\ WF_vars(Next) /\ WF_vars(PollReady)

(***************************************************************************)
(* The register codec on its own: ldc1101_set_reg and ldc1101_read_reg     *)
(* called with any 7-bit register address, next to the calls the program   *)
(* makes.                                                                  *)
(***************************************************************************)
ValueBytes == {0, 1, 127, 128, 255}

CodecInit ==
    /\ pc = "codec_call"
    /\ ireg \in 0..127
    /\ ivalue \in ValueBytes
    /\ num_samples = 1
    /\ num_steps = 1
    /\ cmd_inc = 1000
    /\ cmd_val = 0
    /\ step = 0
    /\ i = 0
    /\ status = 0
    /\ reg = 0
    /\ ret = 0
    /\ value = 0
    /\ spi_fd = 0
    /\ opens = 0
    /\ trace = <<>>
    /\ lastTx = NoTx
    /\ rows = 0
    /\ lastRow = 0
    /\ dataReads = 0
    /\ sent = <<>>
    /\ syslog_last = "none"

CodecSetReg ==
    /\ pc = "codec_call"
    /\ LET tx == SetRegTx(ireg, ivalue)
       IN /\ trace' = Record(trace, tx)
          /\ \E ans \in Answers(tx.count) :
               /\ lastTx' = Answered(tx, ans)
               /\ pc' = SetRegNext(RetOf(ans), "codec_done")
               /\ syslog_last' = IF ans.ok THEN syslog_last
                                 ELSE "set_reg_failed"
    /\ UNCHANGED <<mainLocals, initLocals, spiState, dataReads, logState, sent>>

CodecReadReg ==
    /\ pc = "codec_call"
    /\ \E length \in 1..3 :
         LET tx == ReadRegTx(ireg, [k \in 1..(length + 1) |-> ivalue], length)
         IN /\ trace' = Record(trace, tx)
            /\ \E ans \in Answers(tx.count) :
                 /\ lastTx' = Answered(tx, ans)
                 /\ ret' = RetOf(ans)
                 /\ syslog_last' = IF ans.ok THEN syslog_last
                                   ELSE "read_reg_failed"
            /\ pc' = "codec_done"
    /\ UNCHANGED <<num_samples, num_steps, cmd_inc, cmd_val, step, i, status,
                   reg, value, initLocals, spiState, dataReads, logState, sent>>

CodecNext == CodecSetReg \/ CodecReadReg \/ Next

CodecSpec == (CodecInit \/ Init) /\ [][CodecNext]_vars

(***************************************************************************)
(* Properties.                                                             *)
(***************************************************************************)
Terminated == pc \in {"done", "exit_fail", "ret_err"}
AfterInit == pc \in {"open_log", "for_step", "for_i", "poll", "read_data",
                     "batch_end", "close", "done", "ret_err"}

IsChipIdRead(tx) == tx.op = "r" /\ tx.frame[1] = 191
IsStatusRead(tx) == tx.op = "r" /\ tx.frame[1] = 187
IsDataRead(tx) == tx.op = "r" /\ tx.frame[1] = 184

\* the order of bus transactions the initialisation is to issue:
\* writes of 0x05, 0x0C, 0x31, 0x30, 0x01, the read of 0x3F, the write of 0x0B
InitOrder == << <<"w", 5>>, <<"w", 12>>, <<"w", 49>>, <<"w", 48>>, <<"w", 1>>,
                <<"r", 63>>, <<"w", 11>> >>

IsLhrRead(e) == e.op = "r" /\ (e.addr % 128) \in {56, 57, 58, 59}
IsStartWrite(e) == e.op = "w" /\ (e.addr % 128) = 11

\* C1: the transactions of ldc1101_init are issued in the order ALT_CONFIG,
\* D_CONF, LHR_RCOUNT_MSB, LHR_RCOUNT_LSB, RP_SET (writes), CHIP_ID (read),
\* START_CONFIG = 0 (write) with nothing in between; an initialisation that
\* completes has issued all seven, and no LHR_STATUS or LHR_DATA read comes
\* before the START_CONFIG write.
C1_InitOrder ==
    /\ \A k \in 1..Len(trace) :
         k <= 7 => /\ trace[k].op = InitOrder[k][1]
                   /\ trace[k].addr % 128 = InitOrder[k][2]
    /\ AfterInit => (Len(trace) >= 7 /\ trace[7].val = 0)
    /\ \A k \in 1..Len(trace) :
         IsLhrRead(trace[k]) => \E j \in 1..(k - 1) : IsStartWrite(trace[j])

C1_Witness == pc = "poll" /\ Len(trace) = 8 /\ IsLhrRead(trace[8])

\* C2: when the CHIP_ID read returns a value byte other than 0xD4 the
\* process has exited with failure, does nothing more, and has issued neither
\* the START_CONFIG write nor a status or data read.
C2_IdMismatchFatal ==
    (IsChipIdRead(lastTx) /\ lastTx.ok /\ lastTx.resp[2] # 212)
      => /\ pc = "exit_fail"
         /\ ~ENABLED Next
         /\ \A k \in 1..Len(trace) :
              ~IsStartWrite(trace[k]) /\ ~IsLhrRead(trace[k])

C2_Witness ==
    IsChipIdRead(lastTx) /\ lastTx.ok /\ lastTx.resp[2] = 1 /\ pc = "exit_fail"

\* C3: the LHR data read is issued only when the LHR_STATUS read just before
\* it was answered by the device with a status byte whose bit 0 is clear.
C3_DataReadOnlyAfterReady ==
    pc = "read_data"
      => IsStatusRead(lastTx) /\ lastTx.ok /\ lastTx.resp[2] % 2 = 0

ConfigWrites == {"w_alt_config", "w_d_conf", "w_rcount_msb", "w_rcount_lsb",
                 "w_rp_set", "w_start_config"}

\* C4: a failed transfer in a configuration write ends the process at once,
\* and an ended process issues nothing more; a failed LHR data read is
\* logged, writes no CSV row, and the loop goes on with the next sample.
C4_FailureAsymmetry ==
    [][ /\ pc # "exit_fail"
        /\ (pc \in ConfigWrites /\ ~lastTx'.ok)
             => (lastTx'.op = "w" /\ pc' = "exit_fail")
        /\ (pc = "read_data" /\ ~lastTx'.ok)
             => /\ rows' = rows
                /\ lastRow' = lastRow
                /\ syslog_last' = "read_value_failed"
                /\ pc' = "for_i"
                /\ i' = i + 1 ]_vars

C4_Witness ==
    pc = "for_i" /\ IsDataRead(lastTx) /\ ~lastTx.ok /\ rows < dataReads
      /\ syslog_last = "read_value_failed"

C7_OpenedOnce == opens <= 1 /\ (Len(trace) > 0 => opens = 1)

\* C8: a read hands the transport a byte count no larger than the caller's
\* buffer.
C8_ReadWithinBuffer == lastTx.op = "r" => lastTx.count <= lastTx.bufsize

\* the signed 16-bit value of the k-th datagram
SentValue(k) == S16(sent[k][1] * 256 + sent[k][2])

\* C9: the command sent after the k-th batch is k * cmd_inc and at most
\* 24000 in magnitude, and no batch is sampled once the product is beyond it.
C9_CommandsExact ==
    /\ \A k \in 1..(Len(sent) - 1) :
         SentValue(k + 1) = k * cmd_inc /\ Abs(SentValue(k + 1)) <= 24000
    /\ pc \in {"poll", "read_data"} => Abs(step * cmd_inc) <= 24000

\* a state of the codec on its own: a transaction issued with no handle opened
CodecCalled == lastTx.op # "none" /\ opens = 0

\* C6: for every register address a in 0 .. 0x7F and every value v, the
\* frame of a read starts with a + 0x80 and the frame of a write is the two
\* bytes a, v with bit 7 of the first clear; in every transaction issued,
\* bit 7 of the address byte is set exactly for the reads.
C6_FrameEncoding ==
    /\ (CodecCalled /\ lastTx.op = "r") => lastTx.frame[1] = ireg + 128
    /\ (CodecCalled /\ lastTx.op = "w")
         => (lastTx.frame = <<ireg % 128, ivalue>> /\ lastTx.count = 2)
    /\ lastTx.op = "r" => lastTx.frame[1] >= 128
    /\ lastTx.op = "w" => lastTx.frame[1] < 128
    /\ \A k \in 1..Len(trace) : (trace[k].op = "r") <=> (trace[k].addr >= 128)

C6_Witness ==
    CodecCalled /\ pc = "codec_done" /\ lastTx.op = "r" /\ ireg = 127
      /\ lastTx.frame[1] = 255

\* C10: under the fairness of LiveSpec the program terminates, having issued
\* at most num_steps * num_samples data reads and written at most as many
\* rows; and a poll the device answers not-ready stays in the poll loop,
\* with no data read and no row.
C10_PollAndTermination ==
    /\ <>Terminated
    /\ [](dataReads <= num_steps * num_samples /\ rows <= dataReads)
    /\ [][ (pc = "poll" /\ lastTx'.ok /\ lastTx'.resp[2] % 2 = 1)
             => (pc' = "poll" /\ rows' = rows /\ dataReads' = dataReads) ]_vars

C10_Witness ==
    pc = "done" /\ num_steps = MaxSteps /\ num_samples = MaxSamples
      /\ dataReads = num_steps * num_samples /\ rows = dataReads

====
